---- MODULE Spec2Model ----
(***************************************************************************)
(* One run of the `install` command of pkg/cmd/install.go: credential      *)
(* resolution (loadPublickey, sshAgent), the SSH session, the remote       *)
(* commands, the loopback rewrite, mergeConfigs and writeConfig.           *)
(* Byte strings are sequences of one-character strings.                    *)
(***************************************************************************)
EXTENDS Integers, Sequences, FiniteSets, TLC

VARIABLES
    pc,             \* position of the run inside RunE / loadPublickey / mergeConfigs
    skipInstall,    \* --skip-install
    merge,          \* --merge
    ip,             \* ip.String()
    keyFile,        \* what the file at sshKeyPath holds
    destFile,       \* the file at absPath (local-path)
    dest0,          \* destFile as it was before the run
    tempFile,       \* the k3s-temp-* file of mergeConfigs
    tempOpen,       \* the *os.File returned by ioutil.TempFile is still open
    tempCreated,    \* number of temporary files created
    agentConn,      \* sshAgentConn: "none", "open" or "closed"
    agentDials,     \* successful net.Dial calls to SSH_AUTH_SOCK
    agentCloses,    \* calls of sshAgentConn.Close
    agentOutcome,   \* the return path sshAgent took
    lpDefer,        \* the function deferred at line 250 of loadPublickey
    bytePassword,   \* what terminal.ReadPassword returned
    prompts,        \* writes of the passphrase prompt
    pwReads,        \* calls of terminal.ReadPassword
    authMethod,     \* first result of loadPublickey
    closeSSHAgent,  \* second result of loadPublickey
    err,            \* the error RunE returns
    operator,       \* the SSH session: "none", "open" or "closed"
    sshDials,       \* calls of kssh.NewSSHOperator
    sessionCloses,  \* calls of operator.Close
    sent,           \* commands passed to operator.Execute, in order
    defers,         \* RunE's deferred calls, last registered first
    installRes,     \* res of the installer command
    res,            \* res of the retrieval command
    kubeconfig,     \* the local kubeconfig variable of RunE
    toolRuns,       \* invocations of kubectl
    toolEnv,        \* the KUBECONFIG list handed to kubectl
    toolSaw,        \* the temporary file as kubectl found it
    persistCalls    \* calls of writeConfig on absPath

flagVars  == <<skipInstall, merge, ip, keyFile, dest0>>
agentVars == <<agentConn, agentDials, agentCloses, agentOutcome, lpDefer>>
promptVars == <<bytePassword, prompts, pwReads>>
authVars  == <<authMethod, closeSSHAgent>>
sshVars   == <<operator, sshDials, sessionCloses, sent, defers, installRes, res>>
mergeVars == <<tempFile, tempOpen, tempCreated, toolRuns, toolEnv, toolSaw>>
fileVars  == <<destFile, kubeconfig, persistCalls>>
vars == <<pc, err, flagVars, agentVars, promptVars, authVars, sshVars, mergeVars, fileVars>>

----------------------------------------------------------------------------
\* Bounds of the model.
MaxFrags == 2       \* a retrieved document is made of at most MaxFrags fragments
MaxKeys == 2        \* the agent lists at most MaxKeys keys

\* The two literals of the replacer (line 117).
LOCALHOST == <<"l","o","c","a","l","h","o","s","t">>
LOOPBACK == <<"1","2","7",".","0",".","0",".","1">>

\* Fragments retrieved documents are built from: both literals, a plain byte,
\* and the tail of the IP literal (so that occurrences can overlap).
Frags == {LOCALHOST, LOOPBACK, <<"x">>, <<"2","7",".","0",".","0",".","1">>}

RECURSIVE DocsOf(_)
DocsOf(n) == IF n = 0 THEN {<<>>}
             ELSE LET shorter == DocsOf(n - 1)
                  IN shorter \cup {d \o f : d \in shorter, f \in Frags}
Docs == DocsOf(MaxFrags)

\* Values of ip.String(): an external address, and the loopback address itself.
Addresses == {<<"1","0",".","0",".","0",".","9">>, LOOPBACK}

StdErrs == {<<>>, <<"w">>}

\* Public key blobs, and the key lists an agent can hold.
Blobs == {"k1", "k2"}
KeyLists == UNION {[1..n -> Blobs] : n \in 0..MaxKeys}
\* Content of <path>.pub: unreadable, unparsable, or the authorized key k1.
PubFiles == {"missing", "garbage", "k1"}

\* Files: existence, permission bits, content.
OwnerRW == 384      \* 0600
PreModes == {384, 420}   \* 0600 and 0644
Absent == [exists |-> FALSE, mode |-> 0, content |-> <<>>]
OldDoc == <<"o","l","d">>
PreDest == {Absent} \cup {[exists |-> TRUE, mode |-> m, content |-> OldDoc] : m \in PreModes}

destPath == "kubeconfig"
tempPath == "k3s-temp"

----------------------------------------------------------------------------
\* strings.NewReplacer("localhost", ip, "127.0.0.1", ip).Replace(s):
\* one left-to-right pass; at each position the first pair whose old string
\* starts there is substituted and the scan resumes after it.
HasPrefixAt(s, i, old) ==
    /\ i + Len(old) - 1 <= Len(s)
    /\ \A k \in 1..Len(old) : s[i + k - 1] = old[k]

RECURSIVE ReplaceFrom(_, _, _)
ReplaceFrom(s, i, addr) ==
    IF i > Len(s) THEN <<>>
    ELSE IF HasPrefixAt(s, i, LOCALHOST) THEN addr \o ReplaceFrom(s, i + Len(LOCALHOST), addr)
    ELSE IF HasPrefixAt(s, i, LOOPBACK) THEN addr \o ReplaceFrom(s, i + Len(LOOPBACK), addr)
    ELSE <<s[i]>> \o ReplaceFrom(s, i + 1, addr)

\* Variant of Replace: only the first pair, "localhost", is substituted.
RECURSIVE ReplaceHostFrom(_, _, _)
ReplaceHostFrom(s, i, addr) ==
    IF i > Len(s) THEN <<>>
    ELSE IF HasPrefixAt(s, i, LOCALHOST) THEN addr \o ReplaceHostFrom(s, i + Len(LOCALHOST), addr)
    ELSE <<s[i]>> \o ReplaceHostFrom(s, i + 1, addr)
ReplaceLocalhostOnly(s, addr) == ReplaceHostFrom(s, 1, addr)

Replace(s, addr) == ReplaceFrom(s, 1, addr)

----------------------------------------------------------------------------
\* ioutil.WriteFile(path, data, perm): open with O_WRONLY|O_CREATE|O_TRUNC
\* (perm is used only when the file is created; the umask is taken to leave
\* the owner bits alone), write, close. An outcome is how far the call got:
\* the open failed, the write stopped after n bytes, or all was written.
ShortLens(data) == {n \in {0, Len(data) - 1} : n >= 0 /\ n < Len(data)}
WriteOutcomes(data) ==
    {[kind |-> "ok", n |-> Len(data)], [kind |-> "openfail", n |-> 0]}
        \cup {[kind |-> "short", n |-> k] : k \in ShortLens(data)}

WriteFile(f, data, perm, o) ==
    IF o.kind = "openfail" THEN f
    ELSE [exists |-> TRUE,
          mode |-> IF f.exists THEN f.mode ELSE perm,
          content |-> SubSeq(data, 1, o.n)]

\* kubectl config view --merge --flatten over KUBECONFIG=existing:temp.
\* The tool is an external collaborator: its output is a document determined
\* by the sources it can read, in the order of the list.
KubectlView(existing, new) ==
    <<"m">> \o (IF existing.exists THEN existing.content ELSE <<>>) \o <<"+">> \o new.content

----------------------------------------------------------------------------
\* Variant of SshAgentResult: the agent is used as soon as it lists a key and
\* the .pub file parses, without comparing blobs.
SshAgentNoCompare(reachable, keys, pub) ==
    IF ~reachable
        THEN [auth |-> "nil", close |-> "noop", dialed |-> FALSE, outcome |-> "unreachable"]
    ELSE IF Len(keys) = 0
        THEN [auth |-> "nil", close |-> "conn", dialed |-> TRUE, outcome |-> "nokeys"]
    ELSE IF pub = "missing"
        THEN [auth |-> "nil", close |-> "conn", dialed |-> TRUE, outcome |-> "pubunreadable"]
    ELSE IF pub = "garbage"
        THEN [auth |-> "nil", close |-> "conn", dialed |-> TRUE, outcome |-> "pubunparsable"]
    ELSE [auth |-> "agent", close |-> "conn", dialed |-> TRUE,
          outcome |-> IF \E i \in 1..Len(keys) : keys[i] = pub THEN "match" ELSE "nomatch"]

\* sshAgent(publicKeyPath), lines 202-229, as a function of what it finds:
\* whether the socket can be dialed, the keys the agent lists, the .pub file.
SshAgentResult(reachable, keys, pub) ==
    IF ~reachable
        THEN [auth |-> "nil", close |-> "noop", dialed |-> FALSE, outcome |-> "unreachable"]
    ELSE IF Len(keys) = 0
        THEN [auth |-> "nil", close |-> "conn", dialed |-> TRUE, outcome |-> "nokeys"]
    ELSE IF pub = "missing"
        THEN [auth |-> "nil", close |-> "conn", dialed |-> TRUE, outcome |-> "pubunreadable"]
    ELSE IF pub = "garbage"
        THEN [auth |-> "nil", close |-> "conn", dialed |-> TRUE, outcome |-> "pubunparsable"]
    ELSE IF \E i \in 1..Len(keys) : keys[i] = pub
        THEN [auth |-> "agent", close |-> "conn", dialed |-> TRUE, outcome |-> "match"]
    ELSE [auth |-> "nil", close |-> "noop", dialed |-> TRUE, outcome |-> "nomatch"]

\* Calling a close function: sshAgentConn.Close or a no-op.
ConnAfterClose(fn, conn) == IF fn = "conn" THEN "closed" ELSE conn
ClosesAfterClose(fn, n) == IF fn = "conn" THEN n + 1 ELSE n

----------------------------------------------------------------------------
Init ==
    /\ pc = "readKey"
    /\ skipInstall \in BOOLEAN
    /\ merge \in BOOLEAN
    /\ ip \in Addresses
    /\ keyFile \in {"missing", "plain", "garbage", "encrypted"}
    /\ destFile \in PreDest
    /\ dest0 = destFile
    /\ tempFile = Absent
    /\ tempOpen = FALSE
    /\ tempCreated = 0
    /\ agentConn = "none"
    /\ agentDials = 0
    /\ agentCloses = 0
    /\ agentOutcome = "none"
    /\ lpDefer = "none"
    /\ bytePassword = "none"
    /\ prompts = 0
    /\ pwReads = 0
    /\ authMethod = "nil"
    /\ closeSSHAgent = "none"
    /\ err = "nil"
    /\ operator = "none"
    /\ sshDials = 0
    /\ sessionCloses = 0
    /\ sent = <<>>
    /\ defers = <<>>
    /\ installRes = [StdOut |-> <<>>, StdErr |-> <<>>]
    /\ res = [StdOut |-> <<>>, StdErr |-> <<>>]
    /\ kubeconfig = <<>>
    /\ toolRuns = 0
    /\ toolEnv = <<>>
    /\ toolSaw = [file |-> Absent, open |-> FALSE]
    /\ persistCalls = 0

----------------------------------------------------------------------------
\* Variant of KeyReadable: the read error is not checked.
KeyReadUnchecked(k) == TRUE

\* loadPublickey, lines 234-237, and the error return of RunE, lines 68-70.
KeyReadable(k) == k # "missing"

ReadKey ==
    /\ pc = "readKey"
    /\ IF KeyReadable(keyFile)
          THEN /\ pc' = "parseKey"
               /\ UNCHANGED <<err, authVars>>
          ELSE /\ pc' = "done"
               /\ err' = "KeyReadError"
               /\ authMethod' = "nil"
               /\ closeSSHAgent' = "noop"
    /\ UNCHANGED <<flagVars, agentVars, promptVars, sshVars, mergeVars, fileVars>>

\* Variant of ParsePrivateKey: every well-formed key is sent to the agent path.
ParseAlwaysEncrypted(k) ==
    CASE k \in {"plain", "encrypted"} -> "encrypted"
      [] OTHER -> "error"

\* Variant of ParsePrivateKey: every parse error is taken for "encrypted".
ParseAnyErrorEncrypted(k) ==
    CASE k = "plain" -> "signer"
      [] OTHER -> "encrypted"

\* ssh.ParsePrivateKey(key), lines 239-243: the signer, the "cannot decode
\* encrypted private keys" error, or another error.
ParsePrivateKey(k) ==
    CASE k = "plain" -> "signer"
      [] k = "encrypted" -> "encrypted"
      [] OTHER -> "error"

\* RunE line 72: the close function is deferred once loadPublickey succeeded.
ParseKey ==
    /\ pc = "parseKey"
    /\ LET r == ParsePrivateKey(keyFile) IN
         CASE r = "signer" ->
                /\ authMethod' = "keys"
                /\ closeSSHAgent' = "noop"
                /\ defers' = <<"closeSSHAgent">>
                /\ pc' = "connect"
                /\ err' = err
           [] r = "encrypted" ->
                /\ pc' = "sshAgent"
                /\ UNCHANGED <<authVars, defers, err>>
           [] OTHER ->
                /\ authMethod' = "nil"
                /\ closeSSHAgent' = "noop"
                /\ err' = "KeyParseError"
                /\ pc' = "done"
                /\ defers' = defers
    /\ UNCHANGED <<flagVars, agentVars, promptVars, mergeVars, fileVars>>
    /\ UNCHANGED <<operator, sshDials, sessionCloses, sent, installRes, res>>

\* loadPublickey lines 245-250: the call of sshAgent(path + ".pub") and the
\* branch on its result.
CallSshAgent ==
    /\ pc = "sshAgent"
    /\ \E reachable \in BOOLEAN, keys \in KeyLists, pub \in PubFiles :
         LET r == SshAgentResult(reachable, keys, pub) IN
           /\ agentConn' = IF r.dialed THEN "open" ELSE agentConn
           /\ agentDials' = IF r.dialed THEN agentDials + 1 ELSE agentDials
           /\ agentOutcome' = r.outcome
           /\ IF r.auth # "nil"
                 THEN /\ authMethod' = r.auth
                      /\ closeSSHAgent' = r.close
                      /\ defers' = <<"closeSSHAgent">>
                      /\ lpDefer' = lpDefer
                      /\ pc' = "connect"
                 ELSE /\ lpDefer' = r.close
                      /\ pc' = "prompt"
                      /\ UNCHANGED <<authVars, defers>>
    /\ UNCHANGED <<err, agentCloses, flagVars, promptVars, mergeVars, fileVars>>
    /\ UNCHANGED <<operator, sshDials, sessionCloses, sent, installRes, res>>

\* loadPublickey lines 252-254: the prompt and terminal.ReadPassword.
Prompt ==
    /\ pc = "prompt"
    /\ prompts' = prompts + 1
    /\ pwReads' = pwReads + 1
    /\ bytePassword' \in {"right", "wrong"}
    /\ pc' = "decrypt"
    /\ UNCHANGED <<err, flagVars, agentVars, authVars, sshVars, mergeVars, fileVars>>

\* Variant of Decrypts: the decryption error is not checked.
DecryptUnchecked(pw) == TRUE

\* ssh.ParsePrivateKeyWithPassphrase(key, bytePassword), line 256.
Decrypts(pw) == pw = "right"

\* Variant of MethodAfterDecrypt: a method is returned along with the error.
MethodDespiteError(ok) == "keys"

\* loadPublickey lines 257-262: nil with the error, ssh.PublicKeys(signer)
\* otherwise.
MethodAfterDecrypt(ok) == IF ok THEN "keys" ELSE "nil"

\* loadPublickey lines 256-262; the deferred close() of line 250 runs as
\* loadPublickey returns.
Decrypt ==
    /\ pc = "decrypt"
    /\ agentConn' = ConnAfterClose(lpDefer, agentConn)
    /\ agentCloses' = ClosesAfterClose(lpDefer, agentCloses)
    /\ closeSSHAgent' = "noop"
    /\ authMethod' = MethodAfterDecrypt(Decrypts(bytePassword))
    /\ IF Decrypts(bytePassword)
          THEN /\ defers' = <<"closeSSHAgent">>
               /\ pc' = "connect"
               /\ err' = err
          ELSE /\ err' = "PassphraseDecryptError"
               /\ pc' = "done"
               /\ defers' = defers
    /\ UNCHANGED <<agentDials, agentOutcome, lpDefer>>
    /\ UNCHANGED <<flagVars, promptVars, mergeVars, fileVars>>
    /\ UNCHANGED <<operator, sshDials, sessionCloses, sent, installRes, res>>

\* Variant of DefersAfterConnect: operator.Close runs after closeSSHAgent.
DefersCloseLast(d) == d \o <<"operator.Close">>

\* Variant of DefersAfterConnect: operator.Close is not deferred.
DefersWithoutClose(d) == d

\* RunE lines 74-89: kssh.NewSSHOperator(address, config); on success
\* operator.Close is deferred, on failure RunE returns.
DefersAfterConnect(d) == <<"operator.Close">> \o d


\* Variant of NextAfterConnect: the skip-install flag is ignored.
NextIgnoringSkip(skip) == "install"

NextAfterConnect(skip) == IF skip THEN "getConfig" ELSE "install"

Connect ==
    /\ pc = "connect"
    /\ sshDials' = sshDials + 1
    /\ \E ok \in BOOLEAN :
         IF ok
            THEN /\ operator' = "open"
                 /\ defers' = DefersAfterConnect(defers)
                 /\ pc' = NextAfterConnect(skipInstall)
                 /\ err' = err
            ELSE /\ err' = "ConnectionError"
                 /\ pc' = "returning"
                 /\ UNCHANGED <<operator, defers>>
    /\ UNCHANGED <<sessionCloses, sent, installRes, res>>
    /\ UNCHANGED <<flagVars, agentVars, promptVars, authVars, mergeVars, fileVars>>

\* Variant of AfterInstallError: the run goes on to the retrieval.
ContinueAfterInstallError == "getConfig"

\* RunE lines 97-99: an installer error makes RunE return.
AfterInstallError == "returning"

\* RunE lines 91-102: the installer command.
Install ==
    /\ pc = "install"
    /\ sent' = Append(sent, "install")
    /\ \E ok \in BOOLEAN :
         IF ok
            THEN /\ \E out \in StdErrs, e \in StdErrs :
                       installRes' = [StdOut |-> out, StdErr |-> e]
                 /\ pc' = "getConfig"
                 /\ err' = err
            ELSE /\ err' = "RemoteCommandError"
                 /\ pc' = AfterInstallError
                 /\ installRes' = installRes
    /\ UNCHANGED <<operator, sshDials, sessionCloses, defers, res>>
    /\ UNCHANGED <<flagVars, agentVars, promptVars, authVars, mergeVars, fileVars>>

\* RunE lines 104-113: the retrieval command.
GetConfig ==
    /\ pc = "getConfig"
    /\ sent' = Append(sent, "getConfig")
    /\ \E ok \in BOOLEAN :
         IF ok
            THEN /\ \E out \in Docs, e \in StdErrs :
                       res' = [StdOut |-> out, StdErr |-> e]
                 /\ pc' = "transform"
                 /\ err' = err
            ELSE /\ err' = "RemoteCommandError"
                 /\ pc' = "returning"
                 /\ res' = res
    /\ UNCHANGED <<operator, sshDials, sessionCloses, defers, installRes>>
    /\ UNCHANGED <<flagVars, agentVars, promptVars, authVars, mergeVars, fileVars>>

\* Variant of Rewritten: standard error is part of the document.
RewrittenWithStdErr(r, addr) == Replace(r.StdOut \o r.StdErr, addr)

\* Variant of Rewritten: the retrieved document is persisted as retrieved.
NotRewritten(r, addr) == r.StdOut

\* RunE lines 115-119: the loopback rewrite and the branch on merge.
Rewritten(r, addr) == Replace(r.StdOut, addr)

NextAfterTransform(m) == IF m THEN "mergeTemp" ELSE "persist"

Transform ==
    /\ pc = "transform"
    /\ kubeconfig' = Rewritten(res, ip)
    /\ pc' = NextAfterTransform(merge)
    /\ UNCHANGED <<err, destFile, persistCalls>>
    /\ UNCHANGED <<flagVars, agentVars, promptVars, authVars, sshVars, mergeVars>>

\* mergeConfigs lines 165-169: ioutil.TempFile; RunE lines 122-124 on error.
MergeTempFile ==
    /\ pc = "mergeTemp"
    /\ \E ok \in BOOLEAN :
         IF ok
            THEN /\ tempFile' = [exists |-> TRUE, mode |-> OwnerRW, content |-> <<>>]
                 /\ tempOpen' = TRUE
                 /\ tempCreated' = tempCreated + 1
                 /\ pc' = "mergeWrite"
                 /\ UNCHANGED <<err, kubeconfig>>
            ELSE /\ err' = "TempFileError"
                 /\ kubeconfig' = <<>>
                 /\ pc' = "returning"
                 /\ UNCHANGED <<tempFile, tempOpen, tempCreated>>
    /\ UNCHANGED <<toolRuns, toolEnv, toolSaw, destFile, persistCalls>>
    /\ UNCHANGED <<flagVars, agentVars, promptVars, authVars, sshVars>>

\* mergeConfigs lines 171-173: writeConfig(file.Name(), k3sconfig, true);
\* on error mergeConfigs returns and its deferred file.Close() runs.
MergeWriteTemp ==
    /\ pc = "mergeWrite"
    /\ \E o \in WriteOutcomes(kubeconfig) :
         /\ tempFile' = WriteFile(tempFile, kubeconfig, OwnerRW, o)
         /\ IF o.kind = "ok"
               THEN /\ pc' = "mergeTool"
                    /\ UNCHANGED <<err, tempOpen, kubeconfig>>
               ELSE /\ err' = "TempWriteError"
                    /\ kubeconfig' = <<>>
                    /\ tempOpen' = FALSE
                    /\ pc' = "returning"
    /\ UNCHANGED <<tempCreated, toolRuns, toolEnv, toolSaw, destFile, persistCalls>>
    /\ UNCHANGED <<flagVars, agentVars, promptVars, authVars, sshVars>>

\* mergeConfigs lines 175-186: kubectl run with KUBECONFIG=local:temp; on a
\* failed exit mergeConfigs returns the error (deferred file.Close() runs).
\* Every error return of mergeConfigs carries a nil document, which line 121
\* assigns to kubeconfig; until mergeConfigs returns, kubeconfig holds data.
\* Variant of KubeconfigEnv: the temporary file is listed first.
KubeconfigEnvReversed(localPath, tempName) == <<tempName, localPath>>

KubeconfigEnv(localPath, tempName) == <<localPath, tempName>>

MergeTool ==
    /\ pc = "mergeTool"
    /\ toolRuns' = toolRuns + 1
    /\ toolEnv' = KubeconfigEnv(destPath, tempPath)
    /\ toolSaw' = [file |-> tempFile, open |-> tempOpen]
    /\ \E ok \in BOOLEAN :
         IF ok
            THEN /\ kubeconfig' = KubectlView(destFile, tempFile)
                 /\ pc' = "mergeRemove"
                 /\ UNCHANGED <<err, tempOpen>>
            ELSE /\ err' = "ExternalMergeError"
                 /\ tempOpen' = FALSE
                 /\ pc' = "returning"
                 /\ kubeconfig' = <<>>
    /\ UNCHANGED <<tempFile, tempCreated, destFile, persistCalls>>
    /\ UNCHANGED <<flagVars, agentVars, promptVars, authVars, sshVars>>

\* Variant of MergeRemove: a failed removal is ignored and the merged
\* document is returned.
MergeRemoveBestEffort ==
    /\ pc = "mergeRemove"
    /\ tempOpen' = FALSE
    /\ \E ok \in BOOLEAN : tempFile' = IF ok THEN Absent ELSE tempFile
    /\ pc' = "persist"
    /\ UNCHANGED <<err, kubeconfig>>
    /\ UNCHANGED <<tempCreated, toolRuns, toolEnv, toolSaw, destFile, persistCalls>>
    /\ UNCHANGED <<flagVars, agentVars, promptVars, authVars, sshVars>>

\* mergeConfigs lines 188-194: os.Remove(file.Name()), then the return (the
\* deferred file.Close() runs on both paths).
MergeRemove ==
    /\ pc = "mergeRemove"
    /\ tempOpen' = FALSE
    /\ \E ok \in BOOLEAN :
         IF ok
            THEN /\ tempFile' = Absent
                 /\ pc' = "persist"
                 /\ UNCHANGED <<err, kubeconfig>>
            ELSE /\ err' = "RemoveTempError"
                 /\ kubeconfig' = <<>>
                 /\ pc' = "returning"
                 /\ tempFile' = tempFile
    /\ UNCHANGED <<tempCreated, toolRuns, toolEnv, toolSaw, destFile, persistCalls>>
    /\ UNCHANGED <<flagVars, agentVars, promptVars, authVars, sshVars>>

\* RunE lines 127-132 and writeConfig lines 151-161.
Persist ==
    /\ pc = "persist"
    /\ persistCalls' = persistCalls + 1
    /\ \E o \in WriteOutcomes(kubeconfig) :
         /\ destFile' = WriteFile(destFile, kubeconfig, OwnerRW, o)
         /\ err' = IF o.kind = "ok" THEN "nil" ELSE "PersistError"
    /\ pc' = "returning"
    /\ kubeconfig' = kubeconfig
    /\ UNCHANGED <<flagVars, agentVars, promptVars, authVars, sshVars, mergeVars>>

\* The deferred calls of RunE run in reverse order of registration as it
\* returns: operator.Close (line 89), then closeSSHAgent (line 72).
PcAfterDefer(d) == IF Tail(d) = <<>> THEN "done" ELSE "returning"

DeferredOperatorClose ==
    /\ pc = "returning"
    /\ defers # <<>>
    /\ Head(defers) = "operator.Close"
    /\ operator' = "closed"
    /\ sessionCloses' = sessionCloses + 1
    /\ defers' = Tail(defers)
    /\ pc' = PcAfterDefer(defers)
    /\ UNCHANGED <<sshDials, sent, installRes, res>>
    /\ UNCHANGED <<err, flagVars, agentVars, promptVars, authVars, mergeVars, fileVars>>

DeferredCloseSSHAgent ==
    /\ pc = "returning"
    /\ defers # <<>>
    /\ Head(defers) = "closeSSHAgent"
    /\ agentConn' = ConnAfterClose(closeSSHAgent, agentConn)
    /\ agentCloses' = ClosesAfterClose(closeSSHAgent, agentCloses)
    /\ defers' = Tail(defers)
    /\ pc' = PcAfterDefer(defers)
    /\ UNCHANGED <<agentDials, agentOutcome, lpDefer>>
    /\ UNCHANGED <<operator, sshDials, sessionCloses, sent, installRes, res>>
    /\ UNCHANGED <<err, flagVars, promptVars, authVars, mergeVars, fileVars>>

Next ==
    \/ ReadKey
    \/ ParseKey
    \/ CallSshAgent
    \/ Prompt
    \/ Decrypt
    \/ Connect
    \/ Install
    \/ GetConfig
    \/ Transform
    \/ MergeTempFile
    \/ MergeWriteTemp
    \/ MergeTool
    \/ MergeRemove
    \/ Persist
    \/ DeferredOperatorClose
    \/ DeferredCloseSSHAgent

Spec == Init /\ [][Next]_vars

----------------------------------------------------------------------------
TypeOK ==
    /\ pc \in {"readKey", "parseKey", "sshAgent", "prompt", "decrypt", "connect",
               "install", "getConfig", "transform", "mergeTemp", "mergeWrite",
               "mergeTool", "mergeRemove", "persist", "returning", "done"}
    /\ agentConn \in {"none", "open", "closed"}
    /\ operator \in {"none", "open", "closed"}
    /\ authMethod \in {"nil", "keys", "agent"}
    /\ closeSSHAgent \in {"none", "noop", "conn"}
    /\ tempCreated \in 0..1
    /\ Len(sent) <= 2

----------------------------------------------------------------------------
\* Positions inside loadPublickey, and its error result as RunE returns it.
LpPcs == {"readKey", "parseKey", "sshAgent", "prompt", "decrypt"}
LpReturned == pc \notin LpPcs
LpErrors == {"KeyReadError", "KeyParseError", "PassphraseDecryptError"}
LpErr == IF err \in LpErrors THEN err ELSE "nil"

\* C1: whatever the outcome of mergeConfigs, the temporary file it created
\* no longer exists once mergeConfigs has returned.
C1_TempAbsentAfterMerge ==
    (tempCreated > 0 /\ pc \in {"persist", "returning", "done"}) => ~tempFile.exists

\* C2: every agent connection that sshAgent dialed has been closed exactly
\* once when the run has ended, on every exit path.
C2_AgentClosedOnce ==
    pc = "done" => agentCloses = agentDials

\* C3: when NewSSHOperator succeeded the session is closed exactly once, at
\* the end of the run, on every exit path; when credential resolution or
\* NewSSHOperator failed no session is closed and no command is executed.
C3_SessionClosedOnce ==
    /\ sessionCloses <= 1
    /\ (pc = "done" /\ operator # "none") => (operator = "closed" /\ sessionCloses = 1)
    /\ operator = "closed" => pc \in {"returning", "done"}
    /\ operator = "open" => sessionCloses = 0
    /\ operator = "none" => (sessionCloses = 0 /\ sent = <<>>)

C3_Witness ==
    /\ pc = "done"
    /\ err = "ExternalMergeError"
    /\ operator = "closed"
    /\ sessionCloses = 1

\* C4: after a run whose persist step completed, the destination file has
\* mode 0600 and holds exactly the bytes passed to writeConfig, whatever the
\* file was before the run.
C4_PersistedOwnerOnly ==
    (pc \in {"returning", "done"} /\ persistCalls = 1 /\ err = "nil") =>
        /\ destFile.exists
        /\ destFile.mode = OwnerRW
        /\ destFile.content = kubeconfig

\* C5: after a run that ended in an error the destination file is exactly
\* what it was before the run or exactly the complete final document.
C5_NoHalfWrittenDest ==
    (pc = "done" /\ err # "nil") =>
        \/ destFile = dest0
        \/ destFile.exists /\ persistCalls = 1 /\ destFile.content = kubeconfig

\* C6: for a readable key file that parses as an unencrypted private key,
\* loadPublickey returns a method and a nil error, the agent is not dialed,
\* the prompt is not written and the password is not read.
C6_PlainKeyDirect ==
    keyFile = "plain" =>
        /\ agentOutcome = "none"
        /\ agentDials = 0
        /\ prompts = 0
        /\ pwReads = 0
        /\ LpReturned => (authMethod # "nil" /\ LpErr = "nil")

C6_Witness ==
    /\ keyFile = "plain"
    /\ pc = "connect"
    /\ authMethod = "keys"
    /\ closeSSHAgent = "noop"

\* C7: for an encrypted key whose agent is unreachable or holds no matching
\* key, loadPublickey prompts exactly once (one prompt, one password read)
\* before returning, succeeds if the passphrase decrypts the key and fails
\* otherwise; there is never a second prompt.
C7_PromptOnce ==
    /\ prompts <= 1
    /\ pwReads <= 1
    /\ (keyFile = "encrypted" /\ LpReturned /\ agentOutcome # "match") =>
          /\ prompts = 1
          /\ pwReads = 1
          /\ bytePassword = "right" => (authMethod = "keys" /\ LpErr = "nil")
          /\ bytePassword = "wrong" =>
                (authMethod = "nil" /\ err = "PassphraseDecryptError" /\ pc = "done")

C7_Witness ==
    /\ keyFile = "encrypted"
    /\ agentOutcome = "nomatch"
    /\ bytePassword = "wrong"
    /\ pc = "done"
    /\ prompts = 1

\* C8: when the key file cannot be read loadPublickey fails at once with the
\* read error and the run aborts: no agent dial, no prompt, no SSH dial, no
\* remote command, no write of the destination file.
C8_KeyReadAborts ==
    keyFile = "missing" =>
        /\ agentOutcome = "none"
        /\ agentDials = 0
        /\ prompts = 0
        /\ pwReads = 0
        /\ sshDials = 0
        /\ sent = <<>>
        /\ persistCalls = 0
        /\ destFile = dest0
        /\ pc # "readKey" => (pc = "done" /\ err = "KeyReadError" /\ authMethod = "nil")

C8_Witness ==
    /\ keyFile = "missing"
    /\ pc = "done"
    /\ err = "KeyReadError"

\* What scenario B promises of a finished run: only the retrieval command
\* was sent, once; kubectl merged the existing destination file with the
\* rewritten document; its output is the destination file's content.
ScenarioBOutcome ==
    /\ sent = <<"getConfig">>
    /\ toolRuns = 1
    /\ toolEnv = <<destPath, tempPath>>
    /\ toolSaw.file.content = Replace(res.StdOut, ip)
    /\ destFile.exists
    /\ destFile.content = KubectlView(dest0, [content |-> Replace(res.StdOut, ip)])

\* C9 as stated: in every run with skipInstall and merge the installer is
\* never sent, the retrieval command is sent exactly once, the rewritten
\* document is merged with the existing file and the result replaces it.
C9_EveryRun ==
    (skipInstall /\ merge) =>
        /\ \A i \in 1..Len(sent) : sent[i] # "install"
        /\ pc = "done" => ScenarioBOutcome

\* C9 amended: in every run with skipInstall and merge the installer is never
\* sent and the retrieval command is sent at most once; in every such run
\* that succeeds the retrieval command was sent exactly once, the rewritten
\* document was merged with the existing file and the result replaced it.
C9_SuccessfulRun ==
    (skipInstall /\ merge) =>
        /\ \A i \in 1..Len(sent) : sent[i] # "install"
        /\ Len(sent) <= 1
        /\ (pc = "done" /\ err = "nil") => ScenarioBOutcome

C9_Witness ==
    /\ skipInstall
    /\ merge
    /\ pc = "done"
    /\ err = "nil"
    /\ dest0.exists
    /\ res.StdOut = LOCALHOST
    /\ destFile.content = <<"m">> \o OldDoc \o <<"+">> \o ip

\* C10: in every successful run with skipInstall=false, merge=false and no
\* destination file before the run, the installer command is sent before the
\* retrieval command, kubectl is never invoked, no temporary file is created
\* and the destination file is created with exactly the rewritten document.
C10_FreshInstall ==
    (pc = "done" /\ err = "nil" /\ ~skipInstall /\ ~merge /\ ~dest0.exists) =>
        /\ sent = <<"install", "getConfig">>
        /\ toolRuns = 0
        /\ tempCreated = 0
        /\ destFile.exists
        /\ destFile.content = Replace(res.StdOut, ip)

C10_Witness ==
    /\ pc = "done"
    /\ err = "nil"
    /\ ~skipInstall
    /\ ~merge
    /\ ~dest0.exists
    /\ res.StdOut = LOCALHOST \o <<"x">>
    /\ destFile.content = ip \o <<"x">>
    /\ destFile.mode = OwnerRW

----------------------------------------------------------------------------
\* The positions of a document where one of the two literals occurs, and the
\* length of the literal that occurs there.
Occurrences(s) ==
    {i \in 1..Len(s) : HasPrefixAt(s, i, LOCALHOST) \/ HasPrefixAt(s, i, LOOPBACK)}
LiteralLen(s, i) == IF HasPrefixAt(s, i, LOCALHOST) THEN Len(LOCALHOST) ELSE Len(LOOPBACK)
Covers(s, j, i) == j < i /\ i < j + LiteralLen(s, j)

\* The occurrences met by a left-to-right reading that skips what it has
\* consumed: no chosen occurrence starts inside another chosen one, and every
\* occurrence left out starts inside a chosen one.
LeftToRight(s) ==
    CHOOSE P \in SUBSET Occurrences(s) :
        /\ \A i, j \in P : ~Covers(s, j, i)
        /\ \A i \in Occurrences(s) \ P : \E j \in P : Covers(s, j, i)

\* The document with the occurrences at the positions P replaced by addr and
\* every other byte kept.
RECURSIVE Substituted(_, _, _, _)
Substituted(s, P, i, addr) ==
    IF i > Len(s) THEN <<>>
    ELSE IF i \in P THEN addr \o Substituted(s, P, i + LiteralLen(s, i), addr)
    ELSE <<s[i]>> \o Substituted(s, P, i + 1, addr)

\* The rewrite of line 117 has just run: kubeconfig holds its result.
JustRewritten == pc = "mergeTemp" \/ (pc = "persist" /\ ~merge)

\* C11 as stated: the rewrite replaces every occurrence of `localhost` and
\* of `127.0.0.1` and nothing else, so the output is longer than the input by
\* (address length - literal length) for each occurrence.
C11_EveryOccurrence ==
    JustRewritten =>
        /\ LeftToRight(res.StdOut) = Occurrences(res.StdOut)
        /\ Len(kubeconfig) = Len(res.StdOut)
              + Cardinality(Occurrences(res.StdOut)) * (Len(ip) - Len(LOOPBACK))

\* C11 amended: the rewrite replaces the occurrences met reading left to
\* right without overlap (an occurrence that starts inside a replaced one is
\* not replaced), changes no other byte, and the output is longer than the
\* input by (address length - literal length) for each replaced occurrence.
C11_LeftToRightOccurrences ==
    JustRewritten =>
        LET P == LeftToRight(res.StdOut) IN
        /\ kubeconfig = Substituted(res.StdOut, P, 1, ip)
        /\ Len(kubeconfig) = Len(res.StdOut) + Cardinality(P) * (Len(ip) - Len(LOOPBACK))

C11_Witness ==
    /\ JustRewritten
    /\ res.StdOut = LOOPBACK \o <<"2","7",".","0",".","0",".","1">>
    /\ Occurrences(res.StdOut) = {1, 9}
    /\ ip # LOOPBACK
    /\ kubeconfig = ip \o <<"2","7",".","0",".","0",".","1">>

----------------------------------------------------------------------------
\* The order of the positions of a run.
Rank(p) ==
    CASE p = "readKey" -> 0 [] p = "parseKey" -> 1 [] p = "sshAgent" -> 2
      [] p = "prompt" -> 3 [] p = "decrypt" -> 4 [] p = "connect" -> 5
      [] p = "install" -> 6 [] p = "getConfig" -> 7 [] p = "transform" -> 8
      [] p = "mergeTemp" -> 9 [] p = "mergeWrite" -> 10 [] p = "mergeTool" -> 11
      [] p = "mergeRemove" -> 12 [] p = "persist" -> 13 [] p = "returning" -> 14
      [] OTHER -> 15

\* C12: a run only moves forward through ResolvingAuth, Connecting,
\* [Installing], Retrieving, Transforming, [Merging], Persisting, Done; the
\* SSH dial, each remote command, kubectl and the destination write happen at
\* most once; once a step has failed nothing more is dialed, sent, merged or
\* written, and the error stays.
C12_SequentialNoRetry ==
    [][ /\ pc' # pc => Rank(pc') > Rank(pc)
        /\ pc' = pc => pc = "returning"
        /\ sshDials' <= 1
        /\ toolRuns' <= 1
        /\ persistCalls' <= 1
        /\ sent' \in {<<>>, <<"install">>, <<"getConfig">>, <<"install", "getConfig">>}
        /\ err # "nil" =>
              /\ err' = err
              /\ pc' \in {"returning", "done"}
              /\ sshDials' = sshDials
              /\ sent' = sent
              /\ toolRuns' = toolRuns
              /\ persistCalls' = persistCalls
              /\ destFile' = destFile
      ]_vars

C12_Witness ==
    /\ pc = "done"
    /\ err = "RemoteCommandError"
    /\ sent = <<"install">>
    /\ sshDials = 1
    /\ toolRuns = 0
    /\ persistCalls = 0
    /\ operator = "closed"

----------------------------------------------------------------------------
\* C13: when parsing the key fails with an error other than "key is
\* encrypted", loadPublickey returns that error at once with a nil method:
\* the agent socket is not dialed and no passphrase prompt is shown.
C13_ParseErrorFatal ==
    keyFile = "garbage" =>
        /\ agentOutcome = "none"
        /\ agentDials = 0
        /\ agentConn = "none"
        /\ prompts = 0
        /\ pwReads = 0
        /\ pc \notin {"readKey", "parseKey"} =>
              (pc = "done" /\ err = "KeyParseError" /\ authMethod = "nil")

C13_Witness ==
    /\ keyFile = "garbage"
    /\ pc = "done"
    /\ err = "KeyParseError"

\* The return paths of sshAgent that hand back no authentication method.
FallThrough == {"unreachable", "nokeys", "pubunreadable", "pubunparsable", "nomatch"}

\* C14: for an encrypted key, agent resolution falls through to the
\* passphrase prompt exactly when the agent is unreachable, holds zero keys,
\* the .pub file cannot be read or parsed, or no agent blob equals the local
\* one; when a blob matches, loadPublickey returns the agent-backed method
\* with a nil error and never prompts.
C14_AgentFallThrough ==
    (keyFile = "encrypted" /\ pc \notin {"readKey", "parseKey", "sshAgent"}) =>
        /\ agentOutcome \in FallThrough \cup {"match"}
        /\ agentOutcome \in FallThrough =>
              /\ pc = "prompt" \/ prompts = 1
              /\ authMethod # "agent"
        /\ agentOutcome = "match" =>
              /\ LpReturned
              /\ authMethod = "agent"
              /\ closeSSHAgent = "conn"
              /\ LpErr = "nil"
              /\ prompts = 0
              /\ pwReads = 0

C14_Witness ==
    /\ keyFile = "encrypted"
    /\ agentOutcome = "match"
    /\ pc = "connect"
    /\ authMethod = "agent"

C14_WitnessFallThrough ==
    /\ keyFile = "encrypted"
    /\ agentOutcome = "nomatch"
    /\ pc = "prompt"
    /\ prompts = 0

----------------------------------------------------------------------------
\* C15: the temporary file is fully written and closed (this process holds
\* no handle to it) before kubectl is invoked, and it is removed only after
\* kubectl has produced its output.
C15_TempClosedBeforeTool ==
    /\ toolRuns > 0 =>
          /\ toolSaw.file.exists
          /\ toolSaw.file.content = Replace(res.StdOut, ip)
          /\ ~toolSaw.open
    /\ (tempCreated > 0 /\ ~tempFile.exists) =>
          (toolRuns = 1 /\ pc \in {"persist", "returning", "done"})

\* kubectl succeeded and os.Remove of the temporary file failed.
RemoveFailed ==
    /\ toolRuns = 1
    /\ err # "ExternalMergeError"
    /\ pc \in {"persist", "returning", "done"}
    /\ tempFile.exists

\* C16 as stated: when kubectl succeeds and the removal of the temporary
\* file fails, the failure is ignored: mergeConfigs returns the merged
\* document with a nil error and the run goes on to persist it.
C16_RemoveFailureIgnored ==
    RemoveFailed =>
        /\ err # "RemoveTempError"
        /\ kubeconfig = KubectlView(dest0, toolSaw.file)
        /\ pc = "done" => persistCalls = 1

\* C16 amended: when kubectl succeeds and the removal of the temporary file
\* fails, mergeConfigs returns no document and the removal error; the run
\* ends with that error and the destination file is not written.
C16_RemoveFailureReturned ==
    RemoveFailed =>
        /\ err = "RemoveTempError"
        /\ kubeconfig = <<>>
        /\ persistCalls = 0
        /\ destFile = dest0

C16_Witness ==
    /\ RemoveFailed
    /\ pc = "done"
    /\ err = "RemoveTempError"
    /\ toolSaw.file.content = ip

C17_WitnessFailedExit ==
    /\ pc = "done"
    /\ err = "ExternalMergeError"
    /\ toolRuns = 1

----------------------------------------------------------------------------
\* C18: on every return path of loadPublickey exactly one of the method and
\* the error is non-nil.
C18_MethodXorError ==
    LpReturned => ((authMethod # "nil") <=> (LpErr = "nil"))

C18_Witness ==
    /\ pc = "done"
    /\ err = "PassphraseDecryptError"
    /\ authMethod = "nil"

C18_WitnessSuccess ==
    /\ pc = "connect"
    /\ authMethod = "agent"
    /\ err = "nil"

\* C19: when loadPublickey returned the agent-backed method, the agent
\* connection is open while the SSH session is dialed and for as long as the
\* session is open; it is closed only after the session was closed, or after
\* the dial failed.
C19_AgentOutlivesSession ==
    authMethod = "agent" =>
        /\ pc = "connect" => agentConn = "open"
        /\ operator = "open" => agentConn = "open"
        /\ agentConn = "closed" =>
              \/ operator = "closed"
              \/ operator = "none" /\ err = "ConnectionError"

C19_Witness ==
    /\ authMethod = "agent"
    /\ pc = "returning"
    /\ operator = "closed"
    /\ agentConn = "open"
    /\ defers = <<"closeSSHAgent">>

\* The retrieval command returned no error.
Retrieved == Rank(pc) > Rank("getConfig") /\ sent # <<>> /\ sent[Len(sent)] = "getConfig"
                /\ err # "RemoteCommandError"

\* The errors mergeConfigs returns.
MergeErrors == {"TempFileError", "TempWriteError", "ExternalMergeError", "RemoveTempError"}

\* What a completed persist leaves in the destination file: a function of the
\* retrieval's standard output, the node address and, with merge, kubectl's
\* output over the previous destination file.
PersistedDocument ==
    IF merge THEN KubectlView(dest0, [content |-> Replace(res.StdOut, ip)])
             ELSE Replace(res.StdOut, ip)

\* C20 as stated: the persisted document depends only on the retrieval's
\* standard output, the node address and kubectl's output, never on a
\* standard error or on the installer's output; and the destination is
\* written whenever the retrieval returned no error, also with an empty
\* document.
C20_WrittenWheneverRetrieved ==
    /\ (Retrieved /\ pc \in {"returning", "done"}) => persistCalls = 1
    /\ (persistCalls = 1 /\ err = "nil") =>
          (destFile.exists /\ destFile.content = PersistedDocument)

\* C20 amended: the same, the destination being written whenever the
\* retrieval returned no error and, with merge, mergeConfigs returned no
\* error either; without merge that is whenever the retrieval returned no
\* error, also with an empty document.
C20_PersistedFromStdOut ==
    /\ (Retrieved /\ pc \in {"returning", "done"} /\ err \notin MergeErrors) =>
          persistCalls = 1
    /\ (Retrieved /\ pc \in {"returning", "done"} /\ ~merge) => persistCalls = 1
    /\ err \in MergeErrors => (merge /\ persistCalls = 0 /\ destFile = dest0)
    /\ (persistCalls = 1 /\ err = "nil") =>
          (destFile.exists /\ destFile.content = PersistedDocument)

C20_Witness ==
    /\ pc = "done"
    /\ err = "nil"
    /\ ~merge
    /\ ~skipInstall
    /\ dest0.exists
    /\ dest0.content = OldDoc
    /\ res.StdOut = <<>>
    /\ res.StdErr = <<"w">>
    /\ installRes.StdOut = <<"w">>
    /\ destFile.exists
    /\ destFile.content = <<>>

====
